---- MODULE Spec2Model ----
(***************************************************************************)
(* Model of the parallel transfer helpers of blob/lib/highlevel.node.ts:   *)
(*   UploadResetableStreamToBlockBlob (reached through                     *)
(*   UploadFileToBlockBlob) and DownloadBlobToBuffer.                      *)
(*                                                                         *)
(* A JavaScript async function runs without interruption from one await    *)
(* to the next, so every action below is one such run-to-completion        *)
(* segment: the synchronous prefix of a call, or the continuation that     *)
(* runs when an awaited remote operation settles.  Remote operations       *)
(* (upload, stageBlock, commitBlockList, getProperties, download,          *)
(* streamToBuffer) settle in any order and either succeed or fail.         *)
(*                                                                         *)
(* Sizes are counted in abstract byte units.  The four service limits of   *)
(* utils/constants.ts are scaled down and keep their order:                *)
(*   BLOB_DEFAULT_DOWNLOAD_BLOCK_BYTES < BLOCK_BLOB_MAX_STAGE_BLOCK_BYTES  *)
(*   < BLOCK_BLOB_MAX_UPLOAD_BLOB_BYTES                                    *)
(*   < BLOB_DEFAULT_DOWNLOAD_BLOCK_BYTES * BLOCK_BLOB_MAX_BLOCKS.          *)
(***************************************************************************)
EXTENDS Integers, Sequences, FiniteSets

VARIABLES
    op,               \* which exported function was called
    args,             \* the call's arguments, fixed for the call
    pc,               \* position of the async function
    result,           \* how the call ended
    blockSize,        \* options.blockSize after defaulting
    numBlocks,        \* number of chunk tasks added to the batch
    count,            \* download: count after resolution
    contentLength,    \* download: content-length returned by getProperties
    tasks,            \* the operations added to the batch, in order
    batch,            \* the Batch object
    blockList,        \* upload: blockList
    transferProgress, \* transferProgress
    progressEvents,   \* events passed to options.progress, in order
    calls,            \* number of calls of each remote operation
    committed,        \* the list passed to commitBlockList
    staged,           \* arguments of the stageBlock calls, in call order
    rangeReads,       \* range arguments of the download calls, in call order
    bufWrites,        \* offset/end arguments of the streamToBuffer calls
    settled,          \* positions of the tasks that succeeded, in completion order
    aborter,          \* the Aborter passed to the call
    scheduler,        \* stream upload: the BufferScheduler
    blockNum,         \* stream upload: blockNum
    policy,           \* SharedKeyCredentialPolicy: the request being signed
    thrown            \* the rejection of batch.do() or scheduler.do() the call
                      \* rethrows: the position of the operation whose error
                      \* it is, 0 when there is none

vars == <<op, args, pc, result, blockSize, numBlocks, count, contentLength,
          tasks, batch, blockList, transferProgress, progressEvents, calls,
          committed, staged, rangeReads, bufWrites, settled, aborter,
          scheduler, blockNum, thrown, policy>>

---------------------------------------------------------------------------
(* Service limits (utils/constants.ts), scaled.                            *)

BLOB_DEFAULT_DOWNLOAD_BLOCK_BYTES == 3

BLOCK_BLOB_MAX_STAGE_BLOCK_BYTES == 4

BLOCK_BLOB_MAX_UPLOAD_BLOB_BYTES == 6

BLOCK_BLOB_MAX_BLOCKS == 4

(* Bounds of the explored inputs.                                          *)

MaxSize == 25

MaxParallelism == 3

MaxDownloadParallelism == 2

MaxOffset == 2

MaxCount == 4

MaxBufferLength == 4

MaxContentLength == 4

MaxDownloadBlockSize == 2
MaxStreamLength == 6
MaxStreamBufferSize == 2
MaxBuffers == 4

MaxLongBufferSize == 2

MaxHeaders == 3

---------------------------------------------------------------------------
(* Arithmetic of JavaScript numbers on the integers used here.             *)

Max(a, b) == IF a >= b THEN a ELSE b

Min(a, b) == IF a <= b THEN a ELSE b

\* Math.ceil(a / b) for a >= 0, b > 0
MathCeilDiv(a, b) == (a + b - 1) \div b

\* x / 0 is Infinity for x > 0: larger than every limit compared with it
Infinity == 1000000

---------------------------------------------------------------------------
(* generateBlockID: a fixed-width, zero-padded rendering of the index, so  *)
(* that the IDs compare like their indices.                                *)

BlockIDWidth == 2

generateBlockID(i) == [k \in 1..BlockIDWidth |->
                          IF k = 1 THEN (i \div 10) % 10 ELSE i % 10]

\* lexicographic comparison of two IDs of the same width
BlockIDLess(a, b) ==
    \E k \in 1..BlockIDWidth :
        /\ a[k] < b[k]
        /\ \A j \in 1..(k - 1) : a[j] = b[j]

---------------------------------------------------------------------------
(* UploadResetableStreamToBlockBlob: the chunk plan.                       *)

\* lines 92-94 and 192-194: the option is <<>> when the caller left it out and
\* <<n>> when the caller gave n; a missing or zero option becomes 0
NormalizedBlockSize(o) == IF o = <<>> THEN 0 ELSE o[1]

\* lines 95-98
BlockSizeOptionInvalid(bs) ==
    bs < 0 \/ bs > BLOCK_BLOB_MAX_UPLOAD_BLOB_BYTES

\* line 104
TooLargeForBlockBlob(size) ==
    size > BLOCK_BLOB_MAX_STAGE_BLOCK_BYTES * BLOCK_BLOB_MAX_BLOCKS

DefaultedBlockSize_NoMinimum(size, bs) ==
    IF bs = 0 /\ size > BLOCK_BLOB_MAX_UPLOAD_BLOB_BYTES
    THEN MathCeilDiv(size, BLOCK_BLOB_MAX_BLOCKS)
    ELSE bs

\* lines 103-113: the block size when the caller gave none
DefaultedBlockSize(size, bs) ==
    IF bs = 0 /\ size > BLOCK_BLOB_MAX_UPLOAD_BLOB_BYTES
    THEN LET s == MathCeilDiv(size, BLOCK_BLOB_MAX_BLOCKS)
         IN  IF s < BLOB_DEFAULT_DOWNLOAD_BLOCK_BYTES
             THEN BLOB_DEFAULT_DOWNLOAD_BLOCK_BYTES
             ELSE s
    ELSE bs

SingleShot_Strict(size) == size < BLOCK_BLOB_MAX_UPLOAD_BLOB_BYTES

\* line 121
SingleShot(size) == size <= BLOCK_BLOB_MAX_UPLOAD_BLOB_BYTES

NumBlocksOf_NoMinusOne(size, bs) ==
    IF bs = 0 THEN Infinity ELSE (size \div bs) + 1

\* line 125: Math.floor((size - 1) / blockSize) + 1
NumBlocksOf(size, bs) ==
    IF bs = 0 THEN Infinity ELSE ((size - 1) \div bs) + 1

\* line 141
BlockStart(i, bs) == bs * i

\* line 142
BlockEnd(i, n, size, bs) ==
    IF i = n - 1 THEN size ELSE BlockStart(i, bs) + bs

\* line 143
BlockContentLength(i, n, size, bs) == BlockEnd(i, n, size, bs) - BlockStart(i, bs)

PushBlockID_Unshift(bl, i) == <<generateBlockID(i)>> \o bl

\* lines 140, 144: blockList.push(generateBlockID(i))
PushBlockID(bl, i) == Append(bl, generateBlockID(i))

AddProgress_Overwrite(tp, len) == len

\* lines 156, 244, 345: transferProgress += len
AddProgress(tp, len) == tp + len

---------------------------------------------------------------------------
(* DownloadBlobToBuffer: the range plan.                                   *)

\* lines 192-200
DownloadBlockSize(bs) ==
    IF bs = 0 THEN BLOB_DEFAULT_DOWNLOAD_BLOCK_BYTES ELSE bs

\* line 231: the values of off for which an operation is added
RECURSIVE DownloadOffsets(_, _, _)
DownloadOffsets(off, limit, bs) ==
    IF off < limit
    THEN <<off>> \o DownloadOffsets(off + bs, limit, bs)
    ELSE <<>>

\* line 217: count = content-length - offset
ResolvedCount(len, offset) == len - offset

ResolvedCountInvalid_Never(cnt) == FALSE

\* line 218
ResolvedCountInvalid(cnt) == cnt < 0

BufferTooSmall_OffByOne(len, cnt) == len < cnt - 1

\* line 223
BufferTooSmall(len, cnt) == len < cnt

\* lines 233-234
ChunkEnd(off, bs, cnt) ==
    IF off + bs < cnt THEN off + bs ELSE cnt

\* line 237: range.count
RangeCount(off, chunkEnd) == chunkEnd - off + 1

---------------------------------------------------------------------------
(* Batch (utils/Batch): the operations run in list order, at most          *)
(* `concurrency` at a time; after a failure no further operation is        *)
(* started; do() settles once every started operation has settled.         *)

BatchConcurrency_OneMore(a) == a.parallelism + 1

\* lines 136, 230: new Batch(options.parallelism)
BatchConcurrency(a) == a.parallelism

NewBatch(parallelism) ==
    [concurrency |-> parallelism, actives |-> 0, offset |-> 0,
     completed |-> 0, error |-> 0]

\* how many pending operations parallelExecute starts now
BatchToStart(b, n) ==
    IF b.error # 0 THEN 0 ELSE Min(b.concurrency - b.actives, n - b.offset)

\* an operation succeeded
BatchOperationDone(b) ==
    [b EXCEPT !.actives = @ - 1, !.completed = @ + 1]

BatchOperationFailed_KeepLast(b, p) ==
    [b EXCEPT !.actives = @ - 1, !.error = p]

\* the operation at position p failed: the first error is kept
BatchOperationFailed(b, p) ==
    [b EXCEPT !.actives = @ - 1, !.error = IF @ = 0 THEN p ELSE @]

BatchSettled_RejectAtOnce(b, n) ==
    b.error # 0 \/ (b.actives = 0 /\ b.completed = n)

\* do() resolves or rejects
BatchSettled(b, n) ==
    b.actives = 0 /\ (b.error # 0 \/ b.completed = n)

---------------------------------------------------------------------------
(* SharedKeyCredentialPolicy.getCanonicalizedHeadersString.  A string is   *)
(* the sequence of its characters.                                         *)

\* HeaderConstants.PREFIX_FOR_STORAGE
PREFIX_FOR_STORAGE == <<"x", "-", "m", "s", "-">>

\* String.prototype.toLowerCase on one character
LowerChar(c) ==
    CASE c = "A" -> "a"
      [] c = "M" -> "m"
      [] c = "S" -> "s"
      [] c = "X" -> "x"
      [] OTHER -> c

toLowerCase(str) == [i \in 1..Len(str) |-> LowerChar(str[i])]

startsWith(str, pre) ==
    Len(str) >= Len(pre) /\ SubSeq(str, 1, Len(pre)) = pre

\* UTF-16 code units
CodeUnit(c) ==
    CASE c = " " -> 32
      [] c = "-" -> 45
      [] c = "1" -> 49
      [] c = "A" -> 65
      [] c = "M" -> 77
      [] c = "S" -> 83
      [] c = "X" -> 88
      [] c = "_" -> 95
      [] c = "a" -> 97
      [] c = "b" -> 98
      [] c = "c" -> 99
      [] c = "m" -> 109
      [] c = "s" -> 115
      [] OTHER -> 120

\* position in the collation order of a runtime with ICU: white space,
\* punctuation ("_" before "-"), digits, letters, lower case first
CollationRank(c) ==
    CASE c = " " -> 1
      [] c = "_" -> 2
      [] c = "-" -> 3
      [] c = "1" -> 4
      [] c = "a" -> 5
      [] c = "A" -> 6
      [] c = "b" -> 7
      [] c = "c" -> 8
      [] c = "m" -> 9
      [] c = "M" -> 10
      [] c = "s" -> 11
      [] c = "S" -> 12
      [] c = "x" -> 13
      [] OTHER -> 14

\* the orders String.prototype.localeCompare can implement: the collation of
\* the runtime's locale data, or code units when the runtime has none
Collations == {"icu", "codeunit"}

CharBefore(coll, a, b) ==
    IF coll = "icu" THEN CollationRank(a) < CollationRank(b)
                    ELSE CodeUnit(a) < CodeUnit(b)

\* a.localeCompare(b): negative, 0 or positive
RECURSIVE localeCompare(_, _, _)
localeCompare(coll, a, b) ==
    IF a = <<>> /\ b = <<>> THEN 0
    ELSE IF a = <<>> THEN -1
    ELSE IF b = <<>> THEN 1
    ELSE IF Head(a) = Head(b) THEN localeCompare(coll, Tail(a), Tail(b))
    ELSE IF CharBefore(coll, Head(a), Head(b)) THEN -1
    ELSE 1

\* lines 157-161: the headers whose lowercased name starts with the prefix
FilterStorageHeaders(headers) ==
    SelectSeq(headers,
              LAMBDA h : startsWith(toLowerCase(h.name), PREFIX_FOR_STORAGE))

\* line 165: the comparator given to sort
CompareHeaders(coll, a, b) ==
    localeCompare(coll, toLowerCase(a.name), toLowerCase(b.name))

\* Array.prototype.sort, stable: h goes after the elements not greater
InsertHeader(coll, sorted, h) ==
    LET after == {i \in 1..Len(sorted) : CompareHeaders(coll, sorted[i], h) > 0}
        pos   == IF after = {} THEN Len(sorted) + 1
                 ELSE CHOOSE i \in after : \A j \in after : i <= j
    IN  SubSeq(sorted, 1, pos - 1) \o <<h>> \o SubSeq(sorted, pos, Len(sorted))

\* lines 163-167
RECURSIVE SortHeaders(_, _)
SortHeaders(coll, arr) ==
    IF arr = <<>> THEN <<>>
    ELSE InsertHeader(coll, SortHeaders(coll, SubSeq(arr, 1, Len(arr) - 1)),
                      arr[Len(arr)])

\* lines 170-178: an element is dropped when its lowercased name equals the
\* one of the element before it
RemoveDuplicateHeaders(arr) ==
    LET keep(i) == ~(i > 1 /\ toLowerCase(arr[i].name) = toLowerCase(arr[i - 1].name))
        F[i \in 0..Len(arr)] ==
            IF i = 0 THEN <<>>
            ELSE IF keep(i) THEN Append(F[i - 1], arr[i]) ELSE F[i - 1]
    IN  F[Len(arr)]

RECURSIVE trimRight(_)
trimRight(str) ==
    IF str # <<>> /\ str[Len(str)] = " "
    THEN trimRight(SubSeq(str, 1, Len(str) - 1))
    ELSE str

RECURSIVE trimLeft(_)
trimLeft(str) ==
    IF str # <<>> /\ Head(str) = " " THEN trimLeft(Tail(str)) ELSE str

\* lines 182-184: the two parts of the line of one header
CanonicalizedHeader(h) ==
    [name |-> trimRight(toLowerCase(h.name)), value |-> trimLeft(h.value)]

\* lines 182-184: `${name}:${value}\n`
HeaderLine(l) == l.name \o <<":">> \o l.value \o <<"\n">>

RECURSIVE JoinLines(_)
JoinLines(ls) ==
    IF ls = <<>> THEN <<>> ELSE HeaderLine(Head(ls)) \o JoinLines(Tail(ls))

\* lines 156-187: the headers that are signed, in order
CanonicalizedHeaders(coll, headers) ==
    LET arr == RemoveDuplicateHeaders(SortHeaders(coll, FilterStorageHeaders(headers)))
    IN  [k \in 1..Len(arr) |-> CanonicalizedHeader(arr[k])]

\* header names and values of the requests
HeaderNames ==
    {PREFIX_FOR_STORAGE \o <<"a", "1">>,
     PREFIX_FOR_STORAGE \o <<"a", "_">>,
     PREFIX_FOR_STORAGE \o <<"b">>,
     <<"X", "-", "M", "S", "-", "A", "1">>,
     <<"x", "-", "m", "-", "a">>,
     <<"c", "x", "-", "m", "s", "-">>,
     <<"a">>}

HeaderValues == {<<"v">>, <<" ", "w">>}

RequestHeaders ==
    UNION {[1..n -> [name : HeaderNames, value : HeaderValues]] : n \in 0..MaxHeaders}

\* no request is being signed
NoRequest == [pc |-> "none"]

---------------------------------------------------------------------------
(* The call and its arguments.                                             *)

\* Aborter.none, or an Aborter not signalled yet; offset is the cursor of the
\* batch at the moment of the signal
NotAborted == [aborted |-> FALSE, offset |-> 0]

\* no BufferScheduler exists outside UploadStreamToBlockBlob
NoScheduler == [allocated |-> 0]

\* UploadStreamToBlockBlob(aborter, stream, blockBlobURL, bufferSize,
\* maxBuffers, options); length is the number of bytes the stream delivers
StreamArgs ==
    [length : 0..MaxStreamLength,
     bufferSize : 1..MaxStreamBufferSize,
     maxBuffers : 1..MaxBuffers,
     progress : BOOLEAN]

NoCalls ==
    [upload |-> 0, stageBlock |-> 0, commitBlockList |-> 0,
     generateBlockID |-> 0, getProperties |-> 0, download |-> 0]

UploadArgs ==
    [size : 0..MaxSize,
     blockSize : {<<>>} \cup {<<b>> : b \in -1..(BLOCK_BLOB_MAX_UPLOAD_BLOB_BYTES + 1)},
     parallelism : 1..MaxParallelism,
     progress : BOOLEAN]

DownloadArgs ==
    [offset : -1..MaxOffset,
     count : -1..MaxCount,
     bufferLength : 0..MaxBufferLength,
     blockSize : {<<>>} \cup {<<b>> : b \in -1..MaxDownloadBlockSize},
     parallelism : 1..MaxDownloadParallelism,
     progress : BOOLEAN]

Init ==
    /\ \/ op = "upload" /\ args \in UploadArgs
       \/ op = "download" /\ args \in DownloadArgs
    /\ pc = "init"
    /\ result = "none"
    /\ blockSize = 0
    /\ numBlocks = 0
    /\ count = 0
    /\ contentLength = -1
    /\ tasks = <<>>
    /\ batch = NewBatch(1)
    /\ blockList = <<>>
    /\ transferProgress = 0
    /\ progressEvents = <<>>
    /\ calls = NoCalls
    /\ committed = <<>>
    /\ staged = <<>>
    /\ rangeReads = <<>>
    /\ bufWrites = <<>>
    /\ settled = <<>>
    /\ aborter = NotAborted
    /\ scheduler = NoScheduler
    /\ blockNum = 0
    /\ thrown = 0
    /\ policy = NoRequest

\* the errors the two functions throw themselves
ConfigErrors ==
    {"invalidBlockSize", "tooLarge", "tooManyBlocks", "invalidOffset",
     "invalidCount", "negativeCount", "bufferTooSmall"}

\* the call throws
Throw(kind) ==
    /\ pc' = "done"
    /\ result' = kind

\* options.progress(event), when the option is set (lines 157-159, 245-247)
ReportProgress(loaded, total) ==
    progressEvents' =
        IF args.progress
        THEN Append(progressEvents, [loadedBytes |-> loaded, totalBytes |-> total])
        ELSE progressEvents

---------------------------------------------------------------------------
(* UploadResetableStreamToBlockBlob                                        *)

\* a remote operation called with a signalled Aborter can only end with the
\* cancellation failure
IssuedStatus(normal) == IF aborter.aborted THEN "aborting" ELSE normal

\* the error batch.do() rejects with: the first one
BatchErrorKind ==
    IF tasks[batch.error].status = "cancelled" THEN "abortError" ELSE "transferError"

PushBlockIDs_Twice(bl, lo, hi) ==
    bl \o [j \in 1..(2 * (hi - lo + 1)) |-> generateBlockID(lo + ((j - 1) \div 2))]

RECURSIVE PushBlockIDs(_, _, _)
PushBlockIDs(bl, lo, hi) ==
    IF lo > hi THEN bl ELSE PushBlockIDs(PushBlockID(bl, lo), lo + 1, hi)

\* lines 139-154: the arguments of the stageBlock call of block i
StageBlockCall(i, n, size, bs) ==
    [blockID |-> generateBlockID(i),
     start |-> BlockStart(i, bs),
     contentLength |-> BlockContentLength(i, n, size, bs)]

\* parallelExecute on the upload batch: every operation it starts runs to its
\* await of stageBlock (lines 139-154)
UploadParallelExecute(b, tk, n, bs) ==
    LET k  == BatchToStart(b, Len(tk))
        lo == b.offset + 1
        hi == b.offset + k
    IN  /\ batch' = [b EXCEPT !.actives = @ + k, !.offset = @ + k]
        /\ tasks' = [p \in 1..Len(tk) |->
                        IF p \in lo..hi
                        THEN [tk[p] EXCEPT !.status = IssuedStatus("staging")]
                        ELSE tk[p]]
        /\ blockList' = PushBlockIDs(blockList, lo - 1, hi - 1)
        /\ staged' = staged \o
                        [j \in 1..k |-> StageBlockCall(lo + j - 2, n, args.size, bs)]
        /\ calls' = [calls EXCEPT !.stageBlock = @ + k, !.generateBlockID = @ + k]

\* lines 92-106, 125-131: the call throws before any remote operation
UploadThrowConfig ==
    /\ op = "upload" /\ pc = "init"
    /\ LET bs0 == NormalizedBlockSize(args.blockSize)
           bs  == DefaultedBlockSize(args.size, bs0)
       IN  IF BlockSizeOptionInvalid(bs0)
           THEN Throw("invalidBlockSize")
           ELSE IF bs0 = 0 /\ TooLargeForBlockBlob(args.size)
           THEN Throw("tooLarge")
           ELSE /\ ~SingleShot(args.size)
                /\ NumBlocksOf(args.size, bs) > BLOCK_BLOB_MAX_BLOCKS
                /\ Throw("tooManyBlocks")
    /\ UNCHANGED <<policy, thrown, aborter, scheduler, blockNum, op, args, blockSize, numBlocks, count, contentLength, tasks,
                   batch, blockList, transferProgress, progressEvents, calls,
                   committed, staged, rangeReads, bufWrites, settled>>

\* lines 92-123: one blockBlobURL.upload call
UploadSingleShot ==
    /\ op = "upload" /\ pc = "init"
    /\ LET bs0 == NormalizedBlockSize(args.blockSize)
       IN  /\ ~BlockSizeOptionInvalid(bs0)
           /\ ~(bs0 = 0 /\ TooLargeForBlockBlob(args.size))
           /\ SingleShot(args.size)
           /\ blockSize' = DefaultedBlockSize(args.size, bs0)
    /\ calls' = [calls EXCEPT !.upload = @ + 1]
    /\ pc' = "upload"
    /\ UNCHANGED <<policy, thrown, aborter, scheduler, blockNum, op, args, result, numBlocks, count, contentLength, tasks,
                   batch, blockList, transferProgress, progressEvents,
                   committed, staged, rangeReads, bufWrites, settled>>

\* blockBlobURL.upload settles (line 122)
UploadReturn(ok) ==
    /\ op = "upload" /\ pc = "upload"
    /\ pc' = "done"
    /\ result' = IF ok THEN "ok" ELSE "transferError"
    /\ UNCHANGED <<policy, thrown, aborter, scheduler, blockNum, op, args, blockSize, numBlocks, count, contentLength, tasks,
                   batch, blockList, transferProgress, progressEvents, calls,
                   committed, staged, rangeReads, bufWrites, settled>>

\* lines 92-163: the chunked path up to the await of batch.do()
UploadChunked ==
    /\ op = "upload" /\ pc = "init"
    /\ LET bs0 == NormalizedBlockSize(args.blockSize)
           bs  == DefaultedBlockSize(args.size, bs0)
           n   == NumBlocksOf(args.size, bs)
       IN  /\ ~BlockSizeOptionInvalid(bs0)
           /\ ~(bs0 = 0 /\ TooLargeForBlockBlob(args.size))
           /\ ~SingleShot(args.size)
           /\ n <= BLOCK_BLOB_MAX_BLOCKS
           /\ blockSize' = bs
           /\ numBlocks' = n
           /\ UploadParallelExecute(
                  NewBatch(BatchConcurrency(args)),
                  [p \in 1..n |-> [id |-> p - 1, status |-> "pending"]],
                  n, bs)
    /\ pc' = "batch"
    /\ UNCHANGED <<policy, thrown, aborter, scheduler, blockNum, op, args, result, count, contentLength, transferProgress,
                   progressEvents, committed, rangeReads, bufWrites, settled>>

\* stageBlock of the task at position p succeeded: lines 155-160, then the
\* batch starts the next pending operations
StageBlockSucceed(p) ==
    /\ op = "upload" /\ pc = "batch"
    /\ p \in 1..Len(tasks)
    /\ tasks[p].status = "staging"
    /\ LET len == BlockContentLength(tasks[p].id, numBlocks, args.size, blockSize)
           tp  == AddProgress(transferProgress, len)
       IN  /\ transferProgress' = tp
           /\ ReportProgress(tp, args.size)
    /\ settled' = Append(settled, p)
    /\ UploadParallelExecute(
           BatchOperationDone(batch),
           [tasks EXCEPT ![p].status = "done"],
           numBlocks, blockSize)
    /\ UNCHANGED <<policy, thrown, aborter, scheduler, blockNum, op, args, pc, result, blockSize, numBlocks, count,
                   contentLength, committed, rangeReads, bufWrites>>

StageBlockFail_Swallowed(p) ==
    /\ op = "upload" /\ pc = "batch"
    /\ p \in 1..Len(tasks)
    /\ tasks[p].status = "staging"
    /\ UploadParallelExecute(
           BatchOperationDone(batch),
           [tasks EXCEPT ![p].status = "failed"],
           numBlocks, blockSize)
    /\ UNCHANGED <<policy, thrown, aborter, scheduler, blockNum, op, args, pc, result, blockSize, numBlocks, count,
                   contentLength, transferProgress, progressEvents,
                   committed, rangeReads, bufWrites, settled>>

\* stageBlock of the task at position p failed
StageBlockFail(p) ==
    /\ op = "upload" /\ pc = "batch"
    /\ p \in 1..Len(tasks)
    /\ tasks[p].status = "staging"
    /\ tasks' = [tasks EXCEPT ![p].status = "failed"]
    /\ batch' = BatchOperationFailed(batch, p)
    /\ UNCHANGED <<policy, thrown, aborter, scheduler, blockNum, op, args, pc, result, blockSize, numBlocks, count,
                   contentLength, blockList, transferProgress, progressEvents,
                   calls, committed, staged, rangeReads, bufWrites, settled>>

UploadAfterBatch_IgnoreError ==
    /\ op = "upload" /\ pc = "batch"
    /\ BatchSettled(batch, Len(tasks))
    /\ calls' = [calls EXCEPT !.commitBlockList = @ + 1]
    /\ committed' = blockList
    /\ pc' = "commit"
    /\ UNCHANGED <<policy, thrown, aborter, scheduler, blockNum, op, args, result, blockSize, numBlocks, count, contentLength,
                   tasks, batch, blockList, transferProgress, progressEvents,
                   staged, rangeReads, bufWrites, settled>>

\* lines 163-165: batch.do() settled; commitBlockList, or the error is thrown
UploadAfterBatch ==
    /\ op = "upload" /\ pc = "batch"
    /\ BatchSettled(batch, Len(tasks))
    /\ IF batch.error = 0
       THEN /\ calls' = [calls EXCEPT !.commitBlockList = @ + 1]
            /\ committed' = blockList
            /\ pc' = "commit"
            /\ UNCHANGED result
       ELSE /\ Throw(BatchErrorKind)
            /\ UNCHANGED <<calls, committed>>
    /\ thrown' = batch.error
    /\ UNCHANGED <<policy, aborter, scheduler, blockNum, op, args, blockSize, numBlocks, count, contentLength,
                   tasks, batch, blockList, transferProgress, progressEvents,
                   staged, rangeReads, bufWrites, settled>>

\* commitBlockList settles (line 165)
CommitBlockListReturn(ok) ==
    /\ op \in {"upload", "stream"} /\ pc = "commit"
    /\ ok => ~aborter.aborted
    /\ pc' = "done"
    /\ result' = IF ok THEN "ok"
                 ELSE IF aborter.aborted THEN "abortError" ELSE "transferError"
    /\ UNCHANGED <<policy, thrown, aborter, scheduler, blockNum, op, args, blockSize, numBlocks, count, contentLength, tasks,
                   batch, blockList, transferProgress, progressEvents, calls,
                   committed, staged, rangeReads, bufWrites, settled>>

---------------------------------------------------------------------------
(* DownloadBlobToBuffer                                                    *)

\* lines 233-238: the range of the download call of the operation at off
RangeCall(off, bs, cnt) ==
    [offset |-> off, count |-> RangeCount(off, ChunkEnd(off, bs, cnt))]

\* line 240: the offset and end arguments of streamToBuffer
StreamToBufferCall(off, bs, cnt, offset) ==
    [offset |-> off - offset, end |-> ChunkEnd(off, bs, cnt) - offset]

\* parallelExecute on the download batch: every operation it starts runs to
\* its await of blobURL.download (lines 233-238)
DownloadParallelExecute(b, tk, bs, cnt) ==
    LET k  == BatchToStart(b, Len(tk))
        lo == b.offset + 1
        hi == b.offset + k
    IN  /\ batch' = [b EXCEPT !.actives = @ + k, !.offset = @ + k]
        /\ tasks' = [p \in 1..Len(tk) |->
                        IF p \in lo..hi
                        THEN [tk[p] EXCEPT !.status = IssuedStatus("downloading")]
                        ELSE tk[p]]
        /\ rangeReads' = rangeReads \o
                        [j \in 1..k |-> RangeCall(tk[lo + j - 1].id, bs, cnt)]
        /\ calls' = [calls EXCEPT !.download = @ + k]

DownloadPlan_CheckAfterStart(bs, cnt) ==
    LET offs == DownloadOffsets(args.offset, args.offset + cnt, bs)
    IN  /\ numBlocks' = Len(offs)
        /\ DownloadParallelExecute(
               NewBatch(BatchConcurrency(args)),
               [p \in 1..Len(offs) |-> [id |-> offs[p], status |-> "pending"]],
               bs, cnt)
        /\ IF BufferTooSmall(args.bufferLength, cnt)
           THEN Throw("bufferTooSmall")
           ELSE pc' = "batch" /\ UNCHANGED result

\* lines 223-250: with count resolved to cnt, up to the await of batch.do()
DownloadPlan(bs, cnt) ==
    IF BufferTooSmall(args.bufferLength, cnt)
    THEN /\ Throw("bufferTooSmall")
         /\ UNCHANGED <<tasks, batch, rangeReads>>
         /\ calls' = calls
         /\ numBlocks' = numBlocks
    ELSE LET offs == DownloadOffsets(args.offset, args.offset + cnt, bs)
         IN  /\ numBlocks' = Len(offs)
             /\ DownloadParallelExecute(
                    NewBatch(BatchConcurrency(args)),
                    [p \in 1..Len(offs) |-> [id |-> offs[p], status |-> "pending"]],
                    bs, cnt)
             /\ pc' = "batch"
             /\ UNCHANGED result

\* lines 192-208: the call throws before any remote operation
DownloadThrowConfig ==
    /\ op = "download" /\ pc = "init"
    /\ IF NormalizedBlockSize(args.blockSize) < 0
       THEN Throw("invalidBlockSize")
       ELSE IF args.offset < 0
       THEN Throw("invalidOffset")
       ELSE /\ args.count < 0
            /\ Throw("invalidCount")
    /\ UNCHANGED <<policy, thrown, aborter, scheduler, blockNum, op, args, blockSize, numBlocks, count, contentLength, tasks,
                   batch, blockList, transferProgress, progressEvents, calls,
                   committed, staged, rangeReads, bufWrites, settled>>

\* lines 192-216: count is 0, the blob's properties are fetched
DownloadGetProperties ==
    /\ op = "download" /\ pc = "init"
    /\ NormalizedBlockSize(args.blockSize) >= 0
    /\ args.offset >= 0
    /\ args.count = 0
    /\ blockSize' = DownloadBlockSize(NormalizedBlockSize(args.blockSize))
    /\ calls' = [calls EXCEPT !.getProperties = @ + 1]
    /\ pc' = "getProperties"
    /\ UNCHANGED <<policy, thrown, aborter, scheduler, blockNum, op, args, result, numBlocks, count, contentLength, tasks,
                   batch, blockList, transferProgress, progressEvents,
                   committed, staged, rangeReads, bufWrites, settled>>

\* lines 216-250: getProperties returned a blob of length len
GetPropertiesReturn(len) ==
    /\ op = "download" /\ pc = "getProperties"
    /\ contentLength' = len
    /\ count' = ResolvedCount(len, args.offset)
    /\ IF ResolvedCountInvalid(ResolvedCount(len, args.offset))
       THEN /\ Throw("negativeCount")
            /\ UNCHANGED <<numBlocks, tasks, batch, rangeReads, calls>>
       ELSE DownloadPlan(blockSize, ResolvedCount(len, args.offset))
    /\ UNCHANGED <<policy, thrown, aborter, scheduler, blockNum, op, args, blockSize, blockList, transferProgress,
                   progressEvents, committed, staged, bufWrites, settled>>

\* getProperties failed (line 216)
GetPropertiesFail ==
    /\ op = "download" /\ pc = "getProperties"
    /\ Throw("transferError")
    /\ UNCHANGED <<policy, thrown, aborter, scheduler, blockNum, op, args, blockSize, numBlocks, count, contentLength, tasks,
                   batch, blockList, transferProgress, progressEvents, calls,
                   committed, staged, rangeReads, bufWrites, settled>>

\* lines 192-250: count was given
DownloadWithCount ==
    /\ op = "download" /\ pc = "init"
    /\ NormalizedBlockSize(args.blockSize) >= 0
    /\ args.offset >= 0
    /\ args.count > 0
    /\ blockSize' = DownloadBlockSize(NormalizedBlockSize(args.blockSize))
    /\ count' = args.count
    /\ DownloadPlan(DownloadBlockSize(NormalizedBlockSize(args.blockSize)),
                    args.count)
    /\ UNCHANGED <<policy, thrown, aborter, scheduler, blockNum, op, args, contentLength, blockList, transferProgress,
                   progressEvents, committed, staged, bufWrites, settled>>

\* blobURL.download of the operation at position p returned its response:
\* streamToBuffer is called (lines 239-240)
DownloadRangeSucceed(p) ==
    /\ op = "download" /\ pc = "batch"
    /\ p \in 1..Len(tasks)
    /\ tasks[p].status = "downloading"
    /\ tasks' = [tasks EXCEPT ![p].status = "streaming"]
    /\ bufWrites' = Append(bufWrites,
                           StreamToBufferCall(tasks[p].id, blockSize, count, args.offset))
    /\ UNCHANGED <<policy, thrown, aborter, scheduler, blockNum, op, args, pc, result, blockSize, numBlocks, count,
                   contentLength, batch, blockList, transferProgress,
                   progressEvents, calls, committed, staged, rangeReads, settled>>

\* streamToBuffer of the operation at position p finished: lines 241-248,
\* then the batch starts the next pending operations
StreamToBufferSucceed(p) ==
    /\ op = "download" /\ pc = "batch"
    /\ p \in 1..Len(tasks)
    /\ tasks[p].status = "streaming"
    /\ LET off == tasks[p].id
           tp  == AddProgress(transferProgress, ChunkEnd(off, blockSize, count) - off)
       IN  /\ transferProgress' = tp
           /\ ReportProgress(tp, count)
    /\ settled' = Append(settled, p)
    /\ DownloadParallelExecute(
           BatchOperationDone(batch),
           [tasks EXCEPT ![p].status = "done"],
           blockSize, count)
    /\ UNCHANGED <<policy, thrown, aborter, scheduler, blockNum, op, args, pc, result, blockSize, numBlocks, count,
                   contentLength, blockList, committed, staged, bufWrites>>

\* blobURL.download or streamToBuffer of the operation at position p failed
RangeTaskFail(p) ==
    /\ op = "download" /\ pc = "batch"
    /\ p \in 1..Len(tasks)
    /\ tasks[p].status \in {"downloading", "streaming"}
    /\ tasks' = [tasks EXCEPT ![p].status = "failed"]
    /\ batch' = BatchOperationFailed(batch, p)
    /\ UNCHANGED <<policy, thrown, aborter, scheduler, blockNum, op, args, pc, result, blockSize, numBlocks, count,
                   contentLength, blockList, transferProgress, progressEvents,
                   calls, committed, staged, rangeReads, bufWrites, settled>>

\* lines 250-251: batch.do() settled
DownloadAfterBatch ==
    /\ op = "download" /\ pc = "batch"
    /\ BatchSettled(batch, Len(tasks))
    /\ pc' = "done"
    /\ result' = IF batch.error = 0 THEN "ok" ELSE BatchErrorKind
    /\ thrown' = batch.error
    /\ UNCHANGED <<policy, aborter, scheduler, blockNum, op, args, blockSize, numBlocks, count, contentLength,
                   tasks, batch, blockList, transferProgress, progressEvents,
                   calls, committed, staged, rangeReads, bufWrites, settled>>

---------------------------------------------------------------------------
(* UploadStreamToBlockBlob.  BufferScheduler: the source is read in order  *)
(* into the Filling buffer; a full buffer, or the short last one at the    *)
(* end of the stream, becomes ReadyToSend and waits in the outgoing queue; *)
(* buffers are handed to the outgoing handler in the order they became     *)
(* ready, at most `parallel` at a time; a failed handler stops reads and   *)
(* dispatch, the handlers in flight drain, the first error is surfaced.    *)

OutgoingConcurrency_Floor(maxBuffers) == (3 * maxBuffers) \div 4

\* line 354: Math.ceil((maxBuffers / 4) * 3)
OutgoingConcurrency(maxBuffers) == MathCeilDiv(3 * maxBuffers, 4)

NewBufferScheduler(bufferSize, maxBuffers, parallel) ==
    [bufferSize |-> bufferSize, maxBuffers |-> maxBuffers, parallel |-> parallel,
     read |-> 0, fill |-> 0, outgoing |-> <<>>, executing |-> 0,
     ended |-> FALSE, error |-> 0]

BuffersInUse_NotInFlight(s) == (IF s.fill > 0 THEN 1 ELSE 0) + Len(s.outgoing)

\* buffers of the pool that are not Free
BuffersInUse(s) == (IF s.fill > 0 THEN 1 ELSE 0) + Len(s.outgoing) + s.executing

HandlerBlockID_AfterIncrement(bn) == generateBlockID(bn + 1)

\* line 336: const blockID = generateBlockID(blockNum)
HandlerBlockID(bn) == generateBlockID(bn)

OutgoingHandlerStart_IncrementAfterAwait(st, buf) ==
    [st EXCEPT
        !.tk = Append(@, [id |-> st.bn, status |-> "staging",
                          offset |-> buf.offset, length |-> buf.length]),
        !.bl = Append(@, HandlerBlockID(st.bn)),
        !.sg = Append(@, [blockID |-> HandlerBlockID(st.bn),
                          start |-> buf.offset,
                          contentLength |-> buf.length])]

\* lines 335-342: the outgoing handler is called with buffer buf and runs to
\* its await of stageBlock; st holds the scheduler, the handler invocations,
\* blockList, the stageBlock calls and blockNum
OutgoingHandlerStart(st, buf) ==
    [st EXCEPT
        !.tk = Append(@, [id |-> st.bn, status |-> "staging",
                          offset |-> buf.offset, length |-> buf.length]),
        !.bl = Append(@, HandlerBlockID(st.bn)),
        !.sg = Append(@, [blockID |-> HandlerBlockID(st.bn),
                          start |-> buf.offset,
                          contentLength |-> buf.length]),
        !.bn = @ + 1]

\* ReadyToSend buffers are dispatched, oldest first, while fewer than
\* `parallel` handlers are executing and no handler has failed
RECURSIVE TriggerOutgoingHandlers(_)
TriggerOutgoingHandlers(st) ==
    IF st.s.error # 0 \/ st.s.outgoing = <<>> \/ st.s.executing >= st.s.parallel
    THEN st
    ELSE TriggerOutgoingHandlers(
             OutgoingHandlerStart(
                 [st EXCEPT !.s.outgoing = Tail(@), !.s.executing = @ + 1],
                 Head(st.s.outgoing)))

\* the scheduler moved to s: the state after the dispatches that follow
SchedulerStep(s, tk) ==
    LET st == TriggerOutgoingHandlers(
                  [s |-> s, tk |-> tk, bl |-> blockList, sg |-> staged,
                   bn |-> blockNum])
    IN  /\ scheduler' = st.s
        /\ tasks' = st.tk
        /\ blockList' = st.bl
        /\ staged' = st.sg
        /\ blockNum' = st.bn
        /\ calls' = [calls EXCEPT
                        !.stageBlock = @ + (st.bn - blockNum),
                        !.generateBlockID = @ + (st.bn - blockNum)]

\* lines 319-356: the call up to the await of scheduler.do()
UploadStreamStart ==
    /\ op = "stream" /\ pc = "init"
    /\ pc' = "scheduler"
    /\ scheduler' = NewBufferScheduler(args.bufferSize, args.maxBuffers,
                                       OutgoingConcurrency(args.maxBuffers))
    /\ UNCHANGED <<policy, thrown, aborter, blockNum, op, args, result, blockSize, numBlocks,
                   count, contentLength, tasks, batch, blockList,
                   transferProgress, progressEvents, calls, committed, staged,
                   rangeReads, bufWrites, settled>>

\* the stream delivers n more bytes, which fit into the Filling buffer; a
\* Free buffer is needed to start a new one
SourceData(n) ==
    /\ op = "stream" /\ pc = "scheduler"
    /\ ~scheduler.ended /\ scheduler.error = 0
    /\ n \in 1..Min(scheduler.bufferSize - scheduler.fill,
                     args.length - scheduler.read)
    /\ scheduler.fill > 0 \/ BuffersInUse(scheduler) < scheduler.maxBuffers
    /\ LET full == scheduler.fill + n = scheduler.bufferSize
           buf  == [offset |-> scheduler.read + n - scheduler.bufferSize,
                    length |-> scheduler.bufferSize]
       IN  SchedulerStep(
               [scheduler EXCEPT
                   !.read = @ + n,
                   !.fill = IF full THEN 0 ELSE @ + n,
                   !.outgoing = IF full THEN Append(@, buf) ELSE @],
               tasks)
    /\ UNCHANGED <<policy, thrown, aborter, op, args, pc, result, blockSize, numBlocks, count,
                   contentLength, batch, transferProgress, progressEvents,
                   committed, rangeReads, bufWrites, settled>>

SourceEnd_DropPartial ==
    /\ op = "stream" /\ pc = "scheduler"
    /\ ~scheduler.ended /\ scheduler.error = 0
    /\ scheduler.read = args.length
    /\ SchedulerStep([scheduler EXCEPT !.ended = TRUE, !.fill = 0], tasks)
    /\ UNCHANGED <<policy, thrown, aborter, op, args, pc, result, blockSize, numBlocks,
                   count, contentLength, batch, transferProgress,
                   progressEvents, committed, rangeReads, bufWrites, settled>>

\* the stream ends; a partially filled buffer is dispatched as well
SourceEnd ==
    /\ op = "stream" /\ pc = "scheduler"
    /\ ~scheduler.ended /\ scheduler.error = 0
    /\ scheduler.read = args.length
    /\ LET buf == [offset |-> scheduler.read - scheduler.fill,
                   length |-> scheduler.fill]
       IN  SchedulerStep(
               [scheduler EXCEPT
                   !.ended = TRUE,
                   !.fill = 0,
                   !.outgoing = IF scheduler.fill > 0 THEN Append(@, buf) ELSE @],
               tasks)
    /\ UNCHANGED <<policy, thrown, aborter, op, args, pc, result, blockSize, numBlocks, count,
                   contentLength, batch, transferProgress, progressEvents,
                   committed, rangeReads, bufWrites, settled>>

StreamReportProgress_WithTotal(loaded) ==
    progressEvents' =
        IF args.progress
        THEN Append(progressEvents,
                    [loadedBytes |-> loaded, totalBytes |-> args.length])
        ELSE progressEvents

\* line 347: options.progress({ loadedBytes: transferProgress })
StreamReportProgress(loaded) ==
    progressEvents' =
        IF args.progress
        THEN Append(progressEvents, [loadedBytes |-> loaded])
        ELSE progressEvents

\* stageBlock of the handler invocation at position p succeeded: lines
\* 344-348; the buffer is Free again and the scheduler dispatches
HandlerSucceed(p) ==
    /\ op = "stream" /\ pc = "scheduler"
    /\ p \in 1..Len(tasks)
    /\ tasks[p].status = "staging"
    /\ LET tp == AddProgress(transferProgress, tasks[p].length)
       IN  /\ transferProgress' = tp
           /\ StreamReportProgress(tp)
    /\ settled' = Append(settled, p)
    /\ SchedulerStep([scheduler EXCEPT !.executing = @ - 1],
                     [tasks EXCEPT ![p].status = "done"])
    /\ UNCHANGED <<policy, thrown, aborter, op, args, pc, result, blockSize, numBlocks, count,
                   contentLength, batch, committed, rangeReads, bufWrites>>

HandlerFail_Ignored(p) ==
    /\ op = "stream" /\ pc = "scheduler"
    /\ p \in 1..Len(tasks)
    /\ tasks[p].status = "staging"
    /\ SchedulerStep([scheduler EXCEPT !.executing = @ - 1],
                     [tasks EXCEPT ![p].status = "failed"])
    /\ UNCHANGED <<policy, thrown, aborter, op, args, pc, result, blockSize, numBlocks, count,
                   contentLength, batch, transferProgress, progressEvents,
                   committed, rangeReads, bufWrites, settled>>

\* stageBlock of the handler invocation at position p failed (line 340):
\* the handler rejects, the scheduler records the first error
HandlerFail(p) ==
    /\ op = "stream" /\ pc = "scheduler"
    /\ p \in 1..Len(tasks)
    /\ tasks[p].status = "staging"
    /\ tasks' = [tasks EXCEPT ![p].status = "failed"]
    /\ scheduler' = [scheduler EXCEPT
                        !.executing = @ - 1,
                        !.error = IF @ = 0 THEN p ELSE @]
    /\ UNCHANGED <<policy, thrown, aborter, blockNum, op, args, pc, result, blockSize,
                   numBlocks, count, contentLength, batch, blockList,
                   transferProgress, progressEvents, calls, committed, staged,
                   rangeReads, bufWrites, settled>>

\* scheduler.do() settles: with the first error once the handlers in flight
\* have drained, or successfully once the stream has ended and every buffer
\* has been handled
SchedulerSettled(s) ==
    /\ s.executing = 0
    /\ \/ s.error # 0
       \/ s.ended /\ s.outgoing = <<>> /\ s.fill = 0

UploadStreamAfterScheduler_IgnoreError ==
    /\ op = "stream" /\ pc = "scheduler"
    /\ SchedulerSettled(scheduler)
    /\ pc' = "commit"
    /\ committed' = blockList
    /\ calls' = [calls EXCEPT !.commitBlockList = @ + 1]
    /\ UNCHANGED <<policy, thrown, aborter, scheduler, blockNum, op, args, result, blockSize,
                   numBlocks, count, contentLength, tasks, batch, blockList,
                   transferProgress, progressEvents, staged, rangeReads,
                   bufWrites, settled>>

\* lines 356-358: scheduler.do() settled; commitBlockList, or the error is
\* thrown
UploadStreamAfterScheduler ==
    /\ op = "stream" /\ pc = "scheduler"
    /\ SchedulerSettled(scheduler)
    /\ IF scheduler.error = 0
       THEN /\ pc' = "commit"
            /\ committed' = blockList
            /\ calls' = [calls EXCEPT !.commitBlockList = @ + 1]
            /\ UNCHANGED result
       ELSE /\ Throw("transferError")
            /\ UNCHANGED <<calls, committed>>
    /\ thrown' = scheduler.error
    /\ UNCHANGED <<policy, aborter, scheduler, blockNum, op, args, blockSize,
                   numBlocks, count, contentLength, tasks, batch, blockList,
                   transferProgress, progressEvents, staged, rangeReads,
                   bufWrites, settled>>

---------------------------------------------------------------------------
(* Cancellation: the Aborter of the call is signalled while the batch runs. *)
(* Only the remote operations take the Aborter (lines 146, 165, 235);      *)
(* Batch and streamToBuffer do not (lines 136, 163, 230, 240, 250).        *)

\* the caller signals the Aborter
Abort ==
    /\ op \in {"upload", "download"} /\ pc = "batch"
    /\ ~aborter.aborted
    /\ aborter' = [aborted |-> TRUE, offset |-> batch.offset]
    /\ UNCHANGED <<policy, thrown, scheduler, blockNum, op, args, pc, result, blockSize,
                   numBlocks, count, contentLength, tasks, batch, blockList,
                   transferProgress, progressEvents, calls, committed, staged,
                   rangeReads, bufWrites, settled>>

\* stageBlock or download of the operation at position p ends with the
\* cancellation failure
OperationCancelled(p) ==
    /\ op \in {"upload", "download"} /\ pc = "batch"
    /\ aborter.aborted
    /\ p \in 1..Len(tasks)
    /\ tasks[p].status \in {"staging", "downloading", "aborting"}
    /\ tasks' = [tasks EXCEPT ![p].status = "cancelled"]
    /\ batch' = BatchOperationFailed(batch, p)
    /\ UNCHANGED <<policy, thrown, aborter, scheduler, blockNum, op, args, pc, result,
                   blockSize, numBlocks, count, contentLength, blockList,
                   transferProgress, progressEvents, calls, committed, staged,
                   rangeReads, bufWrites, settled>>

---------------------------------------------------------------------------

Next ==
    \/ UploadThrowConfig
    \/ UploadSingleShot
    \/ \E ok \in BOOLEAN : UploadReturn(ok)
    \/ UploadChunked
    \/ \E p \in 1..BLOCK_BLOB_MAX_BLOCKS : StageBlockSucceed(p)
    \/ \E p \in 1..BLOCK_BLOB_MAX_BLOCKS : StageBlockFail(p)
    \/ UploadAfterBatch
    \/ \E ok \in BOOLEAN : CommitBlockListReturn(ok)
    \/ DownloadThrowConfig
    \/ DownloadGetProperties
    \/ \E len \in 0..MaxContentLength : GetPropertiesReturn(len)
    \/ GetPropertiesFail
    \/ DownloadWithCount
    \/ \E p \in 1..Len(tasks) : DownloadRangeSucceed(p)
    \/ \E p \in 1..Len(tasks) : StreamToBufferSucceed(p)
    \/ \E p \in 1..Len(tasks) : RangeTaskFail(p)
    \/ DownloadAfterBatch

Spec == Init /\ [][Next]_vars

NextAbort ==
    \/ Next
    \/ Abort
    \/ \E p \in 1..Len(tasks) : OperationCancelled(p)

InitStream ==
    /\ op = "stream" /\ args \in StreamArgs
    /\ pc = "init"
    /\ result = "none"
    /\ blockSize = 0
    /\ numBlocks = 0
    /\ count = 0
    /\ contentLength = -1
    /\ tasks = <<>>
    /\ batch = NewBatch(1)
    /\ blockList = <<>>
    /\ transferProgress = 0
    /\ progressEvents = <<>>
    /\ calls = NoCalls
    /\ committed = <<>>
    /\ staged = <<>>
    /\ rangeReads = <<>>
    /\ bufWrites = <<>>
    /\ settled = <<>>
    /\ aborter = NotAborted
    /\ scheduler = NoScheduler
    /\ blockNum = 0
    /\ thrown = 0
    /\ policy = NoRequest

NextStream ==
    \/ UploadStreamStart
    \/ \E n \in 1..MaxStreamBufferSize : SourceData(n)
    \/ SourceEnd
    \/ \E p \in 1..Len(tasks) : HandlerSucceed(p)
    \/ \E p \in 1..Len(tasks) : HandlerFail(p)
    \/ UploadStreamAfterScheduler
    \/ \E ok \in BOOLEAN : CommitBlockListReturn(ok)

\* UploadStreamToBlockBlob
SpecStream == InitStream /\ [][NextStream]_vars

\* every stageBlock and commitBlockList call eventually settles, the stream
\* delivers its data and its end whenever it is not paused, and the
\* continuations of the function run
FairStream ==
    /\ WF_vars(UploadStreamStart)
    /\ WF_vars(\E n \in 1..MaxStreamBufferSize : SourceData(n))
    /\ WF_vars(SourceEnd)
    /\ WF_vars(\E p \in 1..Len(tasks) : HandlerSucceed(p) \/ HandlerFail(p))
    /\ WF_vars(UploadStreamAfterScheduler)
    /\ WF_vars(\E ok \in BOOLEAN : CommitBlockListReturn(ok))

SpecStreamFair == InitStream /\ [][NextStream]_vars /\ FairStream

\* streams of 10 * maxBuffers * bufferSize bytes, for the smallest pool
LongStreamArgs ==
    {[length |-> 10 * b, bufferSize |-> b, maxBuffers |-> 1, progress |-> g] :
        b \in 1..MaxLongBufferSize, g \in BOOLEAN}

InitStreamLong ==
    /\ op = "stream" /\ args \in LongStreamArgs
    /\ pc = "init"
    /\ result = "none"
    /\ blockSize = 0
    /\ numBlocks = 0
    /\ count = 0
    /\ contentLength = -1
    /\ tasks = <<>>
    /\ batch = NewBatch(1)
    /\ blockList = <<>>
    /\ transferProgress = 0
    /\ progressEvents = <<>>
    /\ calls = NoCalls
    /\ committed = <<>>
    /\ staged = <<>>
    /\ rangeReads = <<>>
    /\ bufWrites = <<>>
    /\ settled = <<>>
    /\ aborter = NotAborted
    /\ scheduler = NoScheduler
    /\ blockNum = 0
    /\ thrown = 0
    /\ policy = NoRequest

\* UploadStreamToBlockBlob on short streams and on long ones
SpecStreamLong == (InitStream \/ InitStreamLong) /\ [][NextStream]_vars

\* both upload paths and the download
SpecTransfers == (Init \/ InitStream) /\ [][Next \/ NextStream]_vars

\* getCanonicalizedHeadersString(request) is called
InitHeaders ==
    /\ op = "sign" /\ args = <<>>
    /\ policy \in [pc : {"init"}, headers : RequestHeaders, collation : Collations,
                    lines : {<<>>}, result : {<<>>}]
    /\ pc = "init"
    /\ result = "none"
    /\ blockSize = 0
    /\ numBlocks = 0
    /\ count = 0
    /\ contentLength = -1
    /\ tasks = <<>>
    /\ batch = NewBatch(1)
    /\ blockList = <<>>
    /\ transferProgress = 0
    /\ progressEvents = <<>>
    /\ calls = NoCalls
    /\ committed = <<>>
    /\ staged = <<>>
    /\ rangeReads = <<>>
    /\ bufWrites = <<>>
    /\ settled = <<>>
    /\ aborter = NotAborted
    /\ scheduler = NoScheduler
    /\ blockNum = 0
    /\ thrown = 0

\* lines 156-187
GetCanonicalizedHeadersString ==
    /\ op = "sign" /\ policy.pc = "init"
    /\ LET ls == CanonicalizedHeaders(policy.collation, policy.headers)
       IN  policy' = [policy EXCEPT !.pc = "done", !.lines = ls,
                                   !.result = JoinLines(ls)]
    /\ UNCHANGED <<aborter, scheduler, blockNum, thrown, op, args, pc, result,
                   blockSize, numBlocks, count, contentLength, tasks, batch,
                   blockList, transferProgress, progressEvents, calls,
                   committed, staged, rangeReads, bufWrites, settled>>

NextHeaders == GetCanonicalizedHeadersString

\* SharedKeyCredentialPolicy.getCanonicalizedHeadersString
SpecHeaders == InitHeaders /\ [][NextHeaders]_vars

\* the calls with an Aborter that may be signalled
SpecAbort == Init /\ [][NextAbort]_vars

---------------------------------------------------------------------------
(* Properties                                                              *)

\* ceil(a / b), from its definition: the least q with q * b >= a
CeilOf(a, b) == CHOOSE q \in 0..a : q * b >= a /\ (q - 1) * b < a

\* the bytes [lo, hi)
Bytes(lo, hi) == lo..(hi - 1)

RECURSIVE SumSeq(_, _)
SumSeq(f, n) == IF n = 0 THEN 0 ELSE f[n] + SumSeq(f, n - 1)

ChunkedUpload == op = "upload" /\ pc \in {"batch", "commit", "done"} /\ numBlocks > 0

\* C1: commitBlockList is called only after every one of the numBlocks
\* stageBlock tasks has succeeded; once a stageBlock task has failed,
\* commitBlockList is never called and the call ends with that error.
C1_CommitOnlyAfterAllStaged ==
    op = "upload" =>
        /\ calls.commitBlockList <= 1
        /\ calls.commitBlockList > 0 =>
              /\ Len(tasks) = numBlocks
              /\ calls.stageBlock = numBlocks
              /\ \A p \in 1..Len(tasks) : tasks[p].status = "done"
        /\ (\E p \in 1..Len(tasks) : tasks[p].status = "failed") =>
              /\ calls.commitBlockList = 0
              /\ committed = <<>>
              /\ pc = "done" => result = "transferError"

C1_Witness ==
    /\ ChunkedUpload
    /\ calls.commitBlockList = 1
    /\ numBlocks >= 3
    /\ settled[1] # 1

\* C2: the list passed to commitBlockList is generateBlockID(0),
\* generateBlockID(1), ... in strictly increasing order, whatever the order in
\* which the stageBlock tasks completed and whatever the parallelism.
C2_CommitInIndexOrder ==
    (op = "upload" /\ calls.commitBlockList > 0) =>
        /\ \A k \in 1..Len(committed) : committed[k] = generateBlockID(k - 1)
        /\ \A j, k \in 1..Len(committed) :
              j < k => BlockIDLess(committed[j], committed[k])

\* the three tasks of an upload completed in reverse index order
C2_Witness ==
    /\ ChunkedUpload
    /\ calls.commitBlockList = 1
    /\ Len(committed) = 3
    /\ settled = <<3, 2, 1>>

\* C3: for size <= BLOCK_BLOB_MAX_UPLOAD_BLOB_BYTES and an accepted blockSize
\* option, exactly one upload call is made and no stageBlock, commitBlockList
\* or generateBlockID call.
C3_SingleShotOnly ==
    ( /\ op = "upload"
      /\ pc # "init"
      /\ args.size <= BLOCK_BLOB_MAX_UPLOAD_BLOB_BYTES
      /\ \/ args.blockSize = <<>>
         \/ args.blockSize[1] \in 0..BLOCK_BLOB_MAX_UPLOAD_BLOB_BYTES ) =>
        /\ result \notin ConfigErrors
        /\ calls.upload = 1
        /\ calls.stageBlock = 0
        /\ calls.commitBlockList = 0
        /\ calls.generateBlockID = 0
        /\ blockList = <<>>

C3_Witness ==
    /\ op = "upload"
    /\ args.size = 0
    /\ args.blockSize = <<2>>
    /\ pc = "done"
    /\ calls.upload = 1

\* C4: for size > BLOCK_BLOB_MAX_UPLOAD_BLOB_BYTES the call either throws a
\* configuration error before any remote call, or goes on with
\* numBlocks <= BLOCK_BLOB_MAX_BLOCKS and
\* blockSize <= BLOCK_BLOB_MAX_STAGE_BLOCK_BYTES; a size above
\* BLOCK_BLOB_MAX_STAGE_BLOCK_BYTES * BLOCK_BLOB_MAX_BLOCKS is always rejected.
C4_PlanWithinLimits ==
    ( /\ op = "upload"
      /\ pc # "init"
      /\ args.size > BLOCK_BLOB_MAX_UPLOAD_BLOB_BYTES ) =>
        /\ \/ result \in ConfigErrors /\ calls = NoCalls
           \/ /\ result \notin ConfigErrors
              /\ numBlocks <= BLOCK_BLOB_MAX_BLOCKS
              /\ blockSize <= BLOCK_BLOB_MAX_STAGE_BLOCK_BYTES
        /\ args.size > BLOCK_BLOB_MAX_STAGE_BLOCK_BYTES * BLOCK_BLOB_MAX_BLOCKS =>
              result \in ConfigErrors

\* the smallest s with ceil(size / s) <= BLOCK_BLOB_MAX_BLOCKS
SmallestBlockSize(size) ==
    CHOOSE s \in 1..size :
        /\ CeilOf(size, s) <= BLOCK_BLOB_MAX_BLOCKS
        /\ \A t \in 1..(s - 1) : CeilOf(size, t) > BLOCK_BLOB_MAX_BLOCKS

\* C5: with no blockSize given (undefined or 0) and an accepted size above
\* BLOCK_BLOB_MAX_UPLOAD_BLOB_BYTES, the block size chosen is
\* max(BLOB_DEFAULT_DOWNLOAD_BLOCK_BYTES, s*), s* the smallest s with
\* ceil(size / s) <= BLOCK_BLOB_MAX_BLOCKS.
C5_DefaultBlockSize ==
    ( /\ op = "upload"
      /\ pc # "init"
      /\ args.blockSize \in {<<>>, <<0>>}
      /\ args.size > BLOCK_BLOB_MAX_UPLOAD_BLOB_BYTES
      /\ result \notin ConfigErrors ) =>
        blockSize = Max(BLOB_DEFAULT_DOWNLOAD_BLOCK_BYTES,
                        SmallestBlockSize(args.size))

\* a size whose smallest block size is above the minimum
C5_Witness ==
    /\ ChunkedUpload
    /\ args.blockSize = <<>>
    /\ SmallestBlockSize(args.size) > BLOB_DEFAULT_DOWNLOAD_BLOCK_BYTES
    /\ blockSize = SmallestBlockSize(args.size)

\* the bytes requested by the k-th download call
ReadBytes(k) ==
    Bytes(rangeReads[k].offset, rangeReads[k].offset + rangeReads[k].count)

\* the destination bytes of the k-th streamToBuffer call
WrittenBytes(k) == Bytes(bufWrites[k].offset, bufWrites[k].end)

\* C6: with offset = 0 and count = 0 against a blob of length L, exactly
\* ceil(L / blockSize) ranged reads are issued; their requested ranges are
\* pairwise disjoint, their union is [0, L) and their lengths sum to L.
C6_WholeBlobRanges ==
    ( /\ op = "download"
      /\ args.offset = 0
      /\ args.count = 0
      /\ pc = "done"
      /\ result = "ok" ) =>
        /\ Len(rangeReads) = CeilOf(contentLength, blockSize)
        /\ \A j, k \in 1..Len(rangeReads) :
              j # k => ReadBytes(j) \cap ReadBytes(k) = {}
        /\ UNION {ReadBytes(k) : k \in 1..Len(rangeReads)} = Bytes(0, contentLength)
        /\ SumSeq([k \in 1..Len(rangeReads) |-> rangeReads[k].count],
                  Len(rangeReads)) = contentLength

\* C7: for offset >= 0, count > 0 and blockSize > 0 the ranged reads partition
\* [offset, offset + count): every requested range lies inside it with a
\* length in 1..blockSize, and every task writes a non-empty destination
\* region inside [0, count), the regions being pairwise disjoint and covering
\* [0, count).
C7_RangesPartition ==
    ( /\ op = "download"
      /\ args.offset >= 0
      /\ args.count > 0
      /\ pc \in {"batch", "done"} ) =>
        /\ \A k \in 1..Len(rangeReads) :
              /\ rangeReads[k].count \in 1..blockSize
              /\ ReadBytes(k) \subseteq Bytes(args.offset, args.offset + count)
        /\ \A k \in 1..Len(bufWrites) :
              /\ bufWrites[k].offset < bufWrites[k].end
              /\ WrittenBytes(k) \subseteq Bytes(0, count)
        /\ \A j, k \in 1..Len(bufWrites) :
              j # k => WrittenBytes(j) \cap WrittenBytes(k) = {}
        /\ (pc = "done" /\ result = "ok") =>
              UNION {WrittenBytes(k) : k \in 1..Len(bufWrites)} = Bytes(0, count)

\* C8: after a chunked upload has succeeded, the last loadedBytes reported to
\* options.progress is size, whatever the completion order of the stageBlock
\* tasks.
C8_UploadProgressTotal ==
    ( /\ ChunkedUpload
      /\ pc = "done"
      /\ result = "ok" ) =>
        /\ transferProgress = args.size
        /\ args.progress =>
              /\ Len(progressEvents) = numBlocks
              /\ progressEvents[Len(progressEvents)].loadedBytes = args.size

\* three blocks, the last one short, completed in reverse order
C8_Witness ==
    /\ ChunkedUpload
    /\ pc = "done"
    /\ result = "ok"
    /\ args.progress
    /\ settled = <<3, 2, 1>>
    /\ staged[3].contentLength < blockSize
    /\ progressEvents[3].loadedBytes = args.size

\* C9: after DownloadBlobToBuffer has succeeded, transferProgress (the last
\* loadedBytes reported) is the resolved count, for every offset >= 0, every
\* blockSize and every completion order.
C9_DownloadProgressTotal ==
    ( /\ op = "download"
      /\ pc = "done"
      /\ result = "ok" ) =>
        /\ transferProgress = count
        /\ (args.progress /\ progressEvents # <<>>) =>
              progressEvents[Len(progressEvents)].loadedBytes = count

\* C10: the progress accumulator never decreases, is increased for a chunk
\* only after that chunk's remote operation succeeded, options.progress is
\* called at most once per completed chunk, and every event has
\* 0 <= loadedBytes <= totalBytes.
C10_ProgressMonotoneBounded ==
    /\ transferProgress >= 0
    /\ transferProgress # 0 => settled # <<>>
    /\ Len(progressEvents) <= Len(settled)
    /\ \A k \in 1..Len(progressEvents) :
          /\ progressEvents[k].loadedBytes >= 0
          /\ progressEvents[k].loadedBytes <= progressEvents[k].totalBytes
          /\ k > 1 => progressEvents[k - 1].loadedBytes <= progressEvents[k].loadedBytes

\* the arguments of a download call pass the checks of lines 192-208
DownloadArgsValid ==
    /\ op = "download"
    /\ NormalizedBlockSize(args.blockSize) >= 0
    /\ args.offset >= 0
    /\ args.count >= 0

\* C11: with count = 0 the blob properties are fetched first and count
\* becomes contentLength - offset; when that is negative the call fails, no
\* ranged read is issued and the destination buffer is not written.
C11_CountResolvedFromProperties ==
    (DownloadArgsValid /\ args.count = 0 /\ pc # "init") =>
        /\ calls.getProperties = 1
        /\ pc = "getProperties" =>
              calls.download = 0 /\ rangeReads = <<>> /\ bufWrites = <<>>
        /\ (pc # "getProperties" /\ contentLength >= 0) =>
              /\ count = contentLength - args.offset
              /\ contentLength < args.offset =>
                    /\ pc = "done"
                    /\ result = "negativeCount"
                    /\ calls.download = 0
                    /\ rangeReads = <<>>
                    /\ bufWrites = <<>>

\* the offset lies beyond the end of the blob
C11_Witness ==
    /\ DownloadArgsValid
    /\ args.count = 0
    /\ args.offset = 2
    /\ contentLength = 1
    /\ count = -1
    /\ result = "negativeCount"

\* C12: when buffer.length is below the resolved count the call fails without
\* any ranged read and without writing into the destination buffer.
C12_BufferTooSmallFailsFast ==
    ( /\ DownloadArgsValid
      /\ pc \notin {"init", "getProperties"}
      /\ result \notin {"negativeCount"}
      /\ args.count = 0 => contentLength >= 0
      /\ args.bufferLength < count ) =>
        /\ pc = "done"
        /\ result = "bufferTooSmall"
        /\ calls.download = 0
        /\ rangeReads = <<>>
        /\ bufWrites = <<>>
        /\ tasks = <<>>

\* the buffer is one byte short of a count resolved from the properties
C12_Witness ==
    /\ DownloadArgsValid
    /\ args.count = 0
    /\ contentLength = 4
    /\ args.offset = 1
    /\ args.bufferLength = 2
    /\ count = 3
    /\ result = "bufferTooSmall"

\* C13 as stated: every configuration error is raised before any remote
\* operation of the call, getProperties included.
C13_ConfigErrorBeforeAnyRemoteCall ==
    result \in ConfigErrors => calls = NoCalls

\* C13, amended: every configuration error is raised before any transfer
\* operation (upload, stageBlock, commitBlockList, download) of the call; the
\* only remote operation that can come before one is the getProperties fetch
\* of a download with count = 0, before the errors on the resolved count.
C13_ConfigErrorBeforeTransfer ==
    result \in ConfigErrors =>
        /\ calls.upload = 0
        /\ calls.stageBlock = 0
        /\ calls.commitBlockList = 0
        /\ calls.download = 0
        /\ rangeReads = <<>> /\ bufWrites = <<>> /\ staged = <<>>
        /\ calls.getProperties > 0 =>
              /\ op = "download"
              /\ args.count = 0
              /\ calls.getProperties = 1
              /\ result \in {"negativeCount", "bufferTooSmall"}
        /\ result \notin {"negativeCount", "bufferTooSmall"} => calls = NoCalls

C13_Witness ==
    /\ op = "download"
    /\ args.count = 0
    /\ result = "bufferTooSmall"
    /\ calls.getProperties = 1
    /\ calls.download = 0

\* the positions of the operations with the given statuses
TasksIn(statuses) == {p \in 1..Len(tasks) : tasks[p].status \in statuses}

\* started and not yet settled
ActiveTasks == TasksIn({"staging", "downloading", "streaming", "aborting"})

StartedTasks == (1..Len(tasks)) \ TasksIn({"pending"})

\* C19: while the batch runs, at most options.parallelism chunk tasks are
\* started and not yet settled; the tasks are started in list order, and as
\* long as no task has failed and tasks are pending the window is full: a
\* finished task is replaced at once, without waiting for the other active
\* tasks.
C19_SlidingWindow ==
    (op \in {"upload", "download"} /\ pc = "batch") =>
        /\ Cardinality(ActiveTasks) <= args.parallelism
        /\ Cardinality(ActiveTasks) = batch.actives
        /\ \A p, q \in 1..Len(tasks) :
              (p < q /\ q \in StartedTasks) => p \in StartedTasks
        /\ (TasksIn({"failed"}) = {} /\ TasksIn({"pending"}) # {}) =>
              Cardinality(ActiveTasks) = args.parallelism

\* the second task finished and the third was started while the first is
\* still in flight
C19_Witness ==
    /\ op = "upload" /\ pc = "batch"
    /\ args.parallelism = 2
    /\ Len(tasks) = 4
    /\ tasks[1].status = "staging"
    /\ tasks[2].status = "done"
    /\ tasks[3].status = "staging"
    /\ tasks[4].status = "pending"

\* C20: once a chunk task has failed, no task that was not started yet is
\* started: the set of started tasks does not grow, while the tasks in
\* flight go on to complete or fail.
C20_NoStartAfterFailure ==
    [][ (op \in {"upload", "download"} /\ TasksIn({"failed"}) # {}) =>
            /\ StartedTasks' = StartedTasks
            /\ calls'.stageBlock = calls.stageBlock
            /\ calls'.download = calls.download ]_vars

\* the first task failed, the second one completed after that: the third
\* was not started
C20_Witness ==
    /\ op = "upload" /\ pc = "batch"
    /\ args.parallelism = 2
    /\ Len(tasks) >= 3
    /\ tasks[1].status = "failed"
    /\ tasks[2].status = "done"
    /\ tasks[3].status = "pending"
    /\ batch.actives = 0

\* C14: once the Aborter is signalled during a chunked upload or download,
\* task starts stop within one scheduling step (at most one window of tasks
\* is started after the signal), the call ends with the cancellation failure
\* and not a transfer failure or a success, and an upload does not call
\* commitBlockList.
C14_CancellationStopsTransfer ==
    aborter.aborted =>
        /\ batch.offset - aborter.offset <= args.parallelism
        /\ pc = "done" => result = "abortError"
        /\ calls.commitBlockList = 0

---------------------------------------------------------------------------
(* UploadStreamToBlockBlob                                                 *)

StreamUpload == op = "stream" /\ pc # "init"

\* bytes handed to handler invocations that succeeded
HandledBytes == SumSeq([p \in 1..Len(tasks) |->
                    IF tasks[p].status = "done" THEN tasks[p].length ELSE 0],
                       Len(tasks))

C15_CommitState ==
    StreamUpload =>
        /\ calls.commitBlockList > 0 =>
              /\ scheduler.ended
              /\ scheduler.read = args.length
              /\ \A p \in 1..Len(tasks) : tasks[p].status = "done"
              /\ HandledBytes = args.length
        /\ TasksIn({"failed"}) # {} =>
              /\ calls.commitBlockList = 0
              /\ scheduler.error \in TasksIn({"failed"})
              /\ pc = "done" => result = "transferError"

C15_AfterFailure ==
    (StreamUpload /\ TasksIn({"failed"}) # {}) =>
        /\ scheduler'.read = scheduler.read
        /\ Len(tasks') = Len(tasks)
        /\ calls'.stageBlock = calls.stageBlock
        /\ scheduler'.error = scheduler.error

\* C15: UploadStreamToBlockBlob invokes commitBlockList only after the
\* stream has ended and every handler invocation has succeeded, all bytes of
\* the stream having been handled; once a handler has failed no further byte
\* is read, no further buffer is dispatched, the first error stays the one
\* surfaced, the call fails and commitBlockList is never invoked.
C15_CommitOnlyAfterStreamHandled ==
    [](C15_CommitState) /\ [][C15_AfterFailure]_vars

\* a call that failed after a handler failure with bytes still unread, while
\* another handler had succeeded
C15_Witness ==
    /\ op = "stream" /\ pc = "done" /\ result = "transferError"
    /\ scheduler.read < args.length
    /\ TasksIn({"failed"}) # {}
    /\ TasksIn({"done"}) # {}
    /\ calls.commitBlockList = 0

\* C16: the outgoing concurrency given to the BufferScheduler is strictly
\* lower than maxBuffers.
C16_ConcurrencyBelowMaxBuffers ==
    StreamUpload => scheduler.parallel < args.maxBuffers

\* C17: the k-th buffer of the stream, bytes [k * bufferSize, (k + 1) *
\* bufferSize) cut at the end of the stream, is staged under
\* generateBlockID(k), and the list passed to commitBlockList holds the IDs
\* of all buffers in source order.
C17_StreamBlocksInSourceOrder ==
    StreamUpload =>
        /\ \A j \in 1..Len(staged) :
              /\ staged[j].start % args.bufferSize = 0
              /\ staged[j].blockID = generateBlockID(staged[j].start \div args.bufferSize)
              /\ staged[j].contentLength =
                     Min(args.bufferSize, args.length - staged[j].start)
              /\ staged[j].contentLength > 0
        /\ \A i, j \in 1..Len(staged) : i # j => staged[i].start # staged[j].start
        /\ calls.commitBlockList > 0 =>
              committed = [k \in 1..CeilOf(args.length, args.bufferSize) |->
                              generateBlockID(k - 1)]

\* a committed stream of at least three buffers, the last one short, whose
\* handlers completed out of source order
C17_Witness ==
    /\ op = "stream" /\ pc = "done" /\ result = "ok"
    /\ Len(committed) >= 3
    /\ args.length % args.bufferSize # 0
    /\ \E i, j \in 1..Len(settled) : i < j /\ settled[i] > settled[j]

\* the handler invocation or chunk task that staged the block with this ID
StagedSuccessfully(id) ==
    \E p \in 1..Len(tasks) :
        tasks[p].status = "done" /\ generateBlockID(tasks[p].id) = id

\* C18 as stated: a block ID is in blockList only if the stageBlock call for
\* it has completed successfully.
C18_ListedOnlyAfterStaged ==
    op \in {"upload", "stream"} =>
        \A k \in 1..Len(blockList) : StagedSuccessfully(blockList[k])

\* C18: in both upload paths the block ID is recorded when its stageBlock
\* call is issued: blockList holds exactly the IDs of the stageBlock calls
\* made so far, in call order; and every ID of the list commitBlockList
\* receives has been staged successfully.
C18_ListedWhenStageIssued ==
    op \in {"upload", "stream"} =>
        /\ Len(blockList) = Len(staged)
        /\ Len(blockList) = calls.stageBlock
        /\ \A k \in 1..Len(blockList) : blockList[k] = staged[k].blockID
        /\ calls.commitBlockList > 0 =>
              /\ committed = blockList
              /\ \A k \in 1..Len(committed) : StagedSuccessfully(committed[k])

\* a stream upload with a listed block whose stageBlock is still in flight
\* next to one that has completed
C18_Witness ==
    /\ op = "stream" /\ pc = "scheduler"
    /\ \E k \in 1..Len(blockList) : ~StagedSuccessfully(blockList[k])
    /\ \E k \in 1..Len(blockList) : StagedSuccessfully(blockList[k])

---------------------------------------------------------------------------
(* First error, settling, buffer pool.                                     *)

ChunkedTransfer == op \in {"upload", "download"} /\ pc \in {"batch", "commit", "done"}

C21_Returned ==
    (ChunkedTransfer /\ pc = "done" /\ TasksIn({"failed"}) # {}) =>
        /\ result = "transferError"
        /\ thrown = batch.error
        /\ thrown \in TasksIn({"failed"})

C21_FirstKept ==
    ChunkedTransfer =>
        /\ (TasksIn({"failed"}) = {} /\ TasksIn({"failed"})' # {}) =>
              TasksIn({"failed"})' = {batch'.error}
        /\ TasksIn({"failed"}) # {} => batch'.error = batch.error

\* C21: when several chunk tasks of an upload or download fail, the call
\* throws the error of the task that failed first: the first failure is the
\* one the batch keeps, a later failure never replaces it, and the call
\* rethrows exactly that one.
C21_FirstErrorReturned ==
    [](C21_Returned) /\ [][C21_FirstKept]_vars

\* two tasks failed, the one started later failed first, and its error is the
\* one thrown
C21_Witness ==
    /\ op \in {"upload", "download"} /\ pc = "done"
    /\ Len(tasks) >= 2
    /\ tasks[1].status = "failed" /\ tasks[2].status = "failed"
    /\ thrown = 2

\* C22: a chunked upload or download returns, or goes on to commitBlockList,
\* only when no chunk task it started is still in flight, on the success path
\* and on the failure path.
C22_NoTaskInFlightAtReturn ==
    (ChunkedTransfer /\ pc \in {"commit", "done"}) =>
        /\ ActiveTasks = {}
        /\ batch.actives = 0
        /\ \A p \in 1..Len(tasks) : tasks[p].status \in {"pending", "done", "failed"}

\* a call that failed and returned after a second task, in flight at the
\* first failure, had settled too
C22_Witness ==
    /\ op \in {"upload", "download"} /\ pc = "done" /\ result = "transferError"
    /\ Len(tasks) >= 3
    /\ thrown = 1
    /\ tasks[2].status \in {"done", "failed"}
    /\ tasks[3].status = "pending"

\* C23: during UploadStreamToBlockBlob the buffers that are not Free never
\* exceed maxBuffers, the bytes they hold never exceed maxBuffers *
\* bufferSize, and the handlers in flight never exceed the outgoing
\* concurrency.
C23_BuffersAndHandlersBounded ==
    StreamUpload =>
        /\ (IF scheduler.fill > 0 THEN 1 ELSE 0) + Len(scheduler.outgoing)
             + Cardinality(TasksIn({"staging"})) <= args.maxBuffers
        /\ scheduler.fill
             + SumSeq([k \in 1..Len(scheduler.outgoing) |->
                          scheduler.outgoing[k].length], Len(scheduler.outgoing))
             + SumSeq([p \in 1..Len(tasks) |->
                          IF tasks[p].status = "staging" THEN tasks[p].length ELSE 0],
                      Len(tasks))
             <= args.maxBuffers * args.bufferSize
        /\ scheduler.executing = Cardinality(TasksIn({"staging"}))
        /\ scheduler.executing <= MathCeilDiv(3 * args.maxBuffers, 4)

\* a stream of 10 * maxBuffers * bufferSize bytes, read to its end, with
\* every buffer of the pool in use
C23_Witness ==
    /\ StreamUpload /\ pc = "scheduler"
    /\ args.length = 10 * args.maxBuffers * args.bufferSize
    /\ scheduler.read = args.length
    /\ Len(scheduler.outgoing) + scheduler.executing = args.maxBuffers
    /\ scheduler.executing = scheduler.parallel

\* the source may be read: a buffer is Filling or a Free one exists
SourceReadable ==
    \/ scheduler.fill > 0
    \/ (IF scheduler.fill > 0 THEN 1 ELSE 0) + Len(scheduler.outgoing)
         + Cardinality(TasksIn({"staging"})) < args.maxBuffers

\* something can happen in the running scheduler: a handler is in flight,
\* the source can deliver data or its end, or do() can settle
C24_CanProgress ==
    (op = "stream" /\ pc = "scheduler") =>
        \/ TasksIn({"staging"}) # {}
        \/ /\ TasksIn({"failed"}) = {} /\ ~scheduler.ended
           /\ scheduler.read < args.length => SourceReadable
        \/ /\ TasksIn({"staging"}) = {}
           /\ TasksIn({"failed"}) # {}
                \/ (scheduler.ended /\ scheduler.outgoing = <<>>)

C24_ReadNeedsBuffer ==
    (op = "stream" /\ pc = "scheduler" /\ scheduler'.read > scheduler.read) =>
        SourceReadable

\* C24: in the stream upload the source is read only while a buffer is
\* Filling or Free; no state of the running scheduler is stuck; and when
\* every stageBlock call settles and the source delivers its data and ends,
\* UploadStreamToBlockBlob returns.
C24_BackpressureNoDeadlock ==
    /\ [](C24_CanProgress)
    /\ [][C24_ReadNeedsBuffer]_vars
    /\ <>(pc = "done")

\* the source is suspended: bytes are left, no buffer is Filling or Free and
\* every buffer is in flight
C24_Witness ==
    /\ op = "stream" /\ pc = "scheduler"
    /\ scheduler.read < args.length
    /\ ~SourceReadable
    /\ scheduler.executing = args.maxBuffers
    /\ args.maxBuffers >= 2

\* C25: the buffers are handed to the handler in source order, each starting
\* where the previous one ended, within the bytes read so far; a stream of N
\* bytes uploaded without failure is staged as exactly ceil(N / bufferSize)
\* buffers, all of length bufferSize except a last one of length
\* N mod bufferSize when that is not zero.
C25_EveryByteDispatchedOnce ==
    StreamUpload =>
        /\ \A k \in 1..Len(staged) :
              /\ staged[k].start = (k - 1) * args.bufferSize
              /\ staged[k].start + staged[k].contentLength <= scheduler.read
              /\ k < Len(staged) => staged[k].contentLength = args.bufferSize
        /\ calls.commitBlockList > 0 =>
              /\ Len(staged) = CeilOf(args.length, args.bufferSize)
              /\ \A b \in Bytes(0, args.length) :
                    Cardinality({k \in 1..Len(staged) :
                        b \in Bytes(staged[k].start,
                                    staged[k].start + staged[k].contentLength)}) = 1
              /\ \A k \in 1..Len(staged) :
                    staged[k].contentLength =
                        IF k * args.bufferSize <= args.length
                        THEN args.bufferSize
                        ELSE args.length % args.bufferSize

\* a committed stream whose last buffer was short
C25_Witness ==
    /\ op = "stream" /\ pc = "done" /\ result = "ok"
    /\ args.length % args.bufferSize # 0
    /\ Len(staged) >= 3
    /\ staged[Len(staged)].contentLength < args.bufferSize

---------------------------------------------------------------------------
(* Block ranges, block list, block numbers, stream progress.               *)

\* C26: on the chunked path of UploadResetableStreamToBlockBlob block i
\* starts at i * blockSize, every block but the last has length blockSize,
\* the last one has length size - (numBlocks - 1) * blockSize, which is
\* positive and at most blockSize, and the lengths sum to size.
C26_BlocksTileTheBlob ==
    ChunkedUpload =>
        /\ blockSize > 0
        /\ (numBlocks - 1) * blockSize < args.size
        /\ args.size <= numBlocks * blockSize
        /\ \A j \in 1..Len(staged) :
              /\ staged[j].start = (j - 1) * blockSize
              /\ j < numBlocks => staged[j].contentLength = blockSize
              /\ j = numBlocks =>
                    staged[j].contentLength = args.size - (numBlocks - 1) * blockSize
              /\ 0 < staged[j].contentLength
              /\ staged[j].contentLength <= blockSize
        /\ Len(staged) = numBlocks =>
              SumSeq([j \in 1..Len(staged) |-> staged[j].contentLength],
                     Len(staged)) = args.size

\* every block of a blob whose size is a multiple of blockSize has been
\* staged
C26_Witness ==
    /\ ChunkedUpload
    /\ numBlocks >= 3
    /\ Len(staged) = numBlocks
    /\ args.size = numBlocks * blockSize

\* C27: the list UploadResetableStreamToBlockBlob passes to commitBlockList
\* has exactly numBlocks entries and holds the ID of each index
\* 0..numBlocks-1 exactly once.
C27_BlockListComplete ==
    (op = "upload" /\ calls.commitBlockList > 0) =>
        /\ Len(committed) = numBlocks
        /\ \A i \in 0..(numBlocks - 1) :
              Cardinality({k \in 1..Len(committed) :
                              committed[k] = generateBlockID(i)}) = 1

\* a commit of four blocks staged three at a time that did not complete in
\* index order
C27_Witness ==
    /\ op = "upload" /\ calls.commitBlockList = 1
    /\ numBlocks = 4
    /\ args.parallelism = 3
    /\ \E i, j \in 1..Len(settled) : i < j /\ settled[i] > settled[j]

\* C28: in UploadStreamToBlockBlob the n-th handler invocation takes block
\* number n - 1: no two invocations share a number, blockNum is the number
\* of invocations so far and blockList holds the IDs of 0..blockNum-1 in
\* invocation order.
C28_BlockNumbersUnique ==
    StreamUpload =>
        /\ blockNum = Len(tasks)
        /\ \A p \in 1..Len(tasks) : tasks[p].id = p - 1
        /\ \A p, q \in 1..Len(tasks) : p # q => tasks[p].id # tasks[q].id
        /\ blockList = [k \in 1..blockNum |-> generateBlockID(k - 1)]

\* three handlers in flight at once after an earlier one has completed
C28_Witness ==
    /\ op = "stream" /\ pc = "scheduler"
    /\ Cardinality(TasksIn({"staging"})) = 3
    /\ TasksIn({"done"}) # {}
    /\ blockNum >= 4

\* C29: the events UploadStreamToBlockBlob passes to options.progress carry
\* loadedBytes only, with non-decreasing values; after a successful upload
\* of a stream of N > 0 bytes the last value is N.
C29_StreamProgress ==
    op = "stream" =>
        /\ \A k \in 1..Len(progressEvents) :
              /\ DOMAIN progressEvents[k] = {"loadedBytes"}
              /\ k > 1 => progressEvents[k - 1].loadedBytes
                              <= progressEvents[k].loadedBytes
              /\ progressEvents[k].loadedBytes <= args.length
        /\ (pc = "done" /\ result = "ok" /\ args.progress /\ args.length > 0) =>
              /\ progressEvents # <<>>
              /\ progressEvents[Len(progressEvents)].loadedBytes = args.length

\* a successful upload that reported at least three times, the last buffer
\* being short
C29_Witness ==
    /\ op = "stream" /\ pc = "done" /\ result = "ok"
    /\ Len(progressEvents) >= 3
    /\ progressEvents[Len(progressEvents)].loadedBytes = args.length
    /\ args.length % args.bufferSize # 0

---------------------------------------------------------------------------
(* getCanonicalizedHeadersString                                           *)

\* the lowercased names of the headers with the prefix
StorageHeaderNames ==
    {toLowerCase(policy.headers[i].name) : i \in
        {j \in 1..Len(policy.headers) :
            startsWith(toLowerCase(policy.headers[j].name), PREFIX_FOR_STORAGE)}}

\* a before b in the order of the character codes
RECURSIVE CodeUnitLess(_, _)
CodeUnitLess(a, b) ==
    IF b = <<>> THEN FALSE
    ELSE IF a = <<>> THEN TRUE
    ELSE IF Head(a) = Head(b) THEN CodeUnitLess(Tail(a), Tail(b))
    ELSE CodeUnit(Head(a)) < CodeUnit(Head(b))

\* C30: the string returned holds one line name:value\n per distinct
\* lowercased name with the x-ms- prefix and no other line, the value being
\* the one of a header of that name (white space before it removed), and the
\* lines are in strictly ascending order of the names by character code.
C30_CanonicalizedHeaders ==
    (op = "sign" /\ policy.pc = "done") =>
        /\ {policy.lines[k].name : k \in 1..Len(policy.lines)} = StorageHeaderNames
        /\ Len(policy.lines) = Cardinality(StorageHeaderNames)
        /\ \A k \in 1..Len(policy.lines) :
              \E i \in 1..Len(policy.headers) :
                  /\ toLowerCase(policy.headers[i].name) = policy.lines[k].name
                  /\ trimLeft(policy.headers[i].value) = policy.lines[k].value
        /\ \A k \in 1..(Len(policy.lines) - 1) :
              CodeUnitLess(policy.lines[k].name, policy.lines[k + 1].name)
        /\ policy.result = JoinLines(policy.lines)

====
